---- MODULE Spec2Model ----
(***************************************************************************)
(* Model of src/travel_agent.py: the session memory (AgentMemory), the     *)
(* date resolver and the per-turn orchestrator (TravelAgentSystem).        *)
(*                                                                         *)
(* Python strings are sequences of one-character strings, so that lower(), *)
(* upper(), replace(" ", ""), the substring test and the price parsing are *)
(* computed character by character.  Python objects are tuples read        *)
(* through accessors: a value that may be a string, None or something else *)
(* is <<kind, val>>, a dataclass instance is the tuple of its fields, a    *)
(* dict with a fixed set of possible keys is the tuple of its slots.       *)
(***************************************************************************)
EXTENDS Integers, Sequences, FiniteSets, TLC

VARIABLES
  flight_cache,   \* AgentMemory.flight_cache: sequence of FlightRecord
  op,             \* name of the operation the last step performed
  nlu_response,   \* what the interpretation service answered in the last turn
  calls,          \* calls made by the last operation, in order, with results
  reply,          \* outcome of the last operation: a return value or a raise
  last_update,    \* history: the arguments of the most recent update_cache
  superseded,     \* history: that update_cache discarded records of an earlier call
  scenario_step   \* history: progress along the three scripted turns

vars == <<flight_cache, op, nlu_response, calls, reply, last_update, superseded,
          scenario_step>>

-----------------------------------------------------------------------------
(* Python values *)

PyVal(kind, val) == <<kind, val>>
Kind(v) == v[1]
Val(v)  == v[2]

PyStr(s)  == PyVal("str", s)
PyNone    == PyVal("null", <<>>)
PyNumber  == PyVal("num", <<>>)        \* some non-string, non-null scalar
PyList    == PyVal("list", <<>>)
PyDict(d) == PyVal("dict", d)
IsStr(v)  == Kind(v) = "str"
\* Python truthiness of a str, of None, of a non-zero number
Truthy(v) == CASE Kind(v) = "str"  -> Val(v) # <<>>
               [] Kind(v) = "null" -> FALSE
               [] OTHER            -> TRUE

-----------------------------------------------------------------------------
(* str methods *)

LowerChar(c) ==
  CASE c = "A" -> "a" [] c = "B" -> "b" [] c = "C" -> "c" [] c = "D" -> "d"
    [] c = "E" -> "e" [] c = "F" -> "f" [] c = "G" -> "g" [] c = "H" -> "h"
    [] c = "I" -> "i" [] c = "J" -> "j" [] c = "K" -> "k" [] c = "L" -> "l"
    [] c = "M" -> "m" [] c = "N" -> "n" [] c = "O" -> "o" [] c = "P" -> "p"
    [] c = "Q" -> "q" [] c = "R" -> "r" [] c = "S" -> "s" [] c = "T" -> "t"
    [] c = "U" -> "u" [] c = "V" -> "v" [] c = "W" -> "w" [] c = "X" -> "x"
    [] c = "Y" -> "y" [] c = "Z" -> "z" [] OTHER -> c

UpperChar(c) ==
  CASE c = "a" -> "A" [] c = "b" -> "B" [] c = "c" -> "C" [] c = "d" -> "D"
    [] c = "e" -> "E" [] c = "f" -> "F" [] c = "g" -> "G" [] c = "h" -> "H"
    [] c = "i" -> "I" [] c = "j" -> "J" [] c = "k" -> "K" [] c = "l" -> "L"
    [] c = "m" -> "M" [] c = "n" -> "N" [] c = "o" -> "O" [] c = "p" -> "P"
    [] c = "q" -> "Q" [] c = "r" -> "R" [] c = "s" -> "S" [] c = "t" -> "T"
    [] c = "u" -> "U" [] c = "v" -> "V" [] c = "w" -> "W" [] c = "x" -> "X"
    [] c = "y" -> "Y" [] c = "z" -> "Z" [] OTHER -> c

RECURSIVE lower(_)
\* str.lower()
lower(s) == IF s = <<>> THEN <<>> ELSE <<LowerChar(Head(s))>> \o lower(Tail(s))

\* upper-casing that leaves the string as it is
upper_identity(s) == s

RECURSIVE upper(_)
\* str.upper()
upper(s) == IF s = <<>> THEN <<>> ELSE <<UpperChar(Head(s))>> \o upper(Tail(s))

NotSpace(c) == c # " "
\* str.replace(" ", "")
remove_spaces(s) == SelectSeq(s, NotSpace)

\* the substring test (q in s) on strings
contains(s, q) == \E i \in 0..(Len(s) - Len(q)) : SubSeq(s, i + 1, i + Len(q)) = q

\* the value of a decimal digit, -1 for any other character
DigitValue(c) ==
  CASE c = "0" -> 0 [] c = "1" -> 1 [] c = "2" -> 2 [] c = "3" -> 3 [] c = "4" -> 4
    [] c = "5" -> 5 [] c = "6" -> 6 [] c = "7" -> 7 [] c = "8" -> 8 [] c = "9" -> 9
    [] OTHER -> -1

IsDigit(c) == DigitValue(c) >= 0
\* re.sub(r'[^\d]', '', s)
strip_non_digits(s) == SelectSeq(s, IsDigit)

RECURSIVE int_of_digits(_)
\* int(t) on a non-empty string of decimal digits
int_of_digits(t) == IF t = <<>> THEN 0
                    ELSE 10 * int_of_digits(SubSeq(t, 1, Len(t) - 1))
                         + DigitValue(t[Len(t)])

-----------------------------------------------------------------------------
(* AgentMemory *)

\* the FlightRecord dataclass (lines 39-47)
FlightRecord(flight_id, airline, price, raw_price, departure, origin, destination) ==
  <<flight_id, airline, price, raw_price, departure, origin, destination>>
FlightId(r)    == r[1]
Airline(r)     == r[2]
Price(r)       == r[3]
RawPrice(r)    == r[4]
Departure(r)   == r[5]
Origin(r)      == r[6]
Destination(r) == r[7]

\* one raw offer of the inventory service, a dict with these four keys
Offer(flight_id, airline, departure_time, price) ==
  <<flight_id, airline, departure_time, price>>
\* f[key] on a raw offer
item(f, key) == CASE key = "flight_id"      -> f[1]
                  [] key = "airline"        -> f[2]
                  [] key = "departure_time" -> f[3]
                  [] key = "price"          -> f[4]

SentinelPrice == 999999

\* the price parse with 0 instead of the sentinel
parse_price_int_zero(price) ==
  LET digits == strip_non_digits(price)
  IN  IF digits = <<>> THEN 0 ELSE int_of_digits(digits)

\* lines 63-66: the price string of an offer as an integer
parse_price_int(price) ==
  LET digits == strip_non_digits(price)
  IN  IF digits = <<>> THEN SentinelPrice     \* int('') raises ValueError
      ELSE int_of_digits(digits)

\* lines 68-76: the record built from offer f
build_record(f, origin, dest) ==
  FlightRecord(item(f, "flight_id"), item(f, "airline"),
               parse_price_int(item(f, "price")), item(f, "price"),
               item(f, "departure_time"), origin, dest)

RECURSIVE append_records_skipping(_, _, _, _)
\* the loop leaving out every offer whose price has no digit
append_records_skipping(cache, raw_flights, origin, dest) ==
  IF raw_flights = <<>> THEN cache
  ELSE append_records_skipping(
         IF strip_non_digits(item(Head(raw_flights), "price")) = <<>> THEN cache
         ELSE Append(cache, build_record(Head(raw_flights), origin, dest)),
         Tail(raw_flights), origin, dest)

RECURSIVE append_records(_, _, _, _)
\* the for loop of update_cache over raw_flights
append_records(cache, raw_flights, origin, dest) ==
  IF raw_flights = <<>> THEN cache
  ELSE append_records(Append(cache, build_record(Head(raw_flights), origin, dest)),
                      Tail(raw_flights), origin, dest)

\* update_cache without line 60: the new records are appended to the old ones
update_cache_keeps_old(old_cache, raw_flights, origin, dest) ==
  append_records(old_cache, raw_flights, origin, dest)

\* AgentMemory.update_cache: the new value of self.flight_cache
update_cache(old_cache, raw_flights, origin, dest) ==
  append_records(<<>>, raw_flights, origin, dest)

RECURSIVE find_flight_by_airline_nonempty(_, _)
\* the airline lookup that finds nothing for a query without characters
find_flight_by_airline_nonempty(cache, airline_name) ==
  LET normalized_query == remove_spaces(lower(airline_name))
  IN  IF cache = <<>> \/ normalized_query = <<>> THEN PyNone
      ELSE IF contains(remove_spaces(lower(Airline(Head(cache)))), normalized_query)
           THEN Head(cache)
           ELSE find_flight_by_airline_nonempty(Tail(cache), airline_name)

RECURSIVE find_flight_by_airline_exact(_, _)
\* the airline lookup with equality in place of the substring test
find_flight_by_airline_exact(cache, airline_name) ==
  LET normalized_query == remove_spaces(lower(airline_name))
  IN  IF cache = <<>> THEN PyNone
      ELSE IF remove_spaces(lower(Airline(Head(cache)))) = normalized_query
           THEN Head(cache)
           ELSE find_flight_by_airline_exact(Tail(cache), airline_name)

RECURSIVE find_flight_by_airline(_, _)
\* AgentMemory.find_flight_by_airline
find_flight_by_airline(cache, airline_name) ==
  LET normalized_query == remove_spaces(lower(airline_name))
  IN  IF cache = <<>> THEN PyNone
      ELSE IF contains(remove_spaces(lower(Airline(Head(cache)))), normalized_query)
           THEN Head(cache)
           ELSE find_flight_by_airline(Tail(cache), airline_name)

RECURSIVE min_by_price_last(_, _)
\* the minimum where a later element also replaces the best one on equal keys
min_by_price_last(best, rest) ==
  IF rest = <<>> THEN best
  ELSE min_by_price_last(IF Price(Head(rest)) <= Price(best) THEN Head(rest) ELSE best,
                         Tail(rest))

RECURSIVE min_by_price(_, _)
\* min(iterable, key=price) continued with the best element so far: a later
\* element replaces it only when its key is strictly smaller
min_by_price(best, rest) ==
  IF rest = <<>> THEN best
  ELSE min_by_price(IF Price(Head(rest)) < Price(best) THEN Head(rest) ELSE best,
                    Tail(rest))

\* the cheapest lookup that takes the first cached record
find_cheapest_flight_first(cache) ==
  IF cache = <<>> THEN PyNone ELSE Head(cache)

\* AgentMemory.find_cheapest_flight
find_cheapest_flight(cache) ==
  IF cache = <<>> THEN PyNone
  ELSE min_by_price(Head(cache), Tail(cache))

RECURSIVE get_flight_by_id(_, _)
\* AgentMemory.get_flight_by_id
get_flight_by_id(cache, flight_id) ==
  IF cache = <<>> THEN PyNone
  ELSE IF FlightId(Head(cache)) = flight_id THEN Head(cache)
       ELSE get_flight_by_id(Tail(cache), flight_id)

-----------------------------------------------------------------------------
(* String literals of the source and of the inputs, as character sequences *)

S_SEARCH == <<"S","E","A","R","C","H">>
S_BOOK == <<"B","O","O","K">>
S_GENERAL == <<"G","E","N","E","R","A","L">>
S_search == <<"s","e","a","r","c","h">>
S_Unknown == <<"U","n","k","n","o","w","n">>
S_Guest == <<"G","u","e","s","t">>
S_cheapest == <<"c","h","e","a","p","e","s","t">>
S_tomorrow == <<"t","o","m","o","r","r","o","w">>
S_today == <<"t","o","d","a","y">>
S_London == <<"L","o","n","d","o","n">>
S_Paris == <<"P","a","r","i","s">>
S_Robin == <<"R","o","b","i","n">>
S_Lufthansa == <<"L","u","f","t","h","a","n","s","a">>
S_Delta == <<"D","e","l","t","a">>
S_air == <<"a","i","r">>
S_AirFrance == <<"A","i","r"," ","F","r","a","n","c","e">>
S_BritishAirways == <<"B","r","i","t","i","s","h"," ","A","i","r","w","a","y","s">>
S_AirEuropa == <<"A","i","r"," ","E","u","r","o","p","a">>
S_british_airways == <<"b","r","i","t","i","s","h"," "," ","a","i","r","w","a","y","s">>
S_the_CHEAPEST_one == <<"t","h","e"," ","C","H","E","A","P","E","S","T"," ","o","n","e">>
S_lh5614 == <<"l","h","-","5","6","1","4">>
S_LH5614 == <<"L","H","-","5","6","1","4">>
S_Lh5614 == <<"L","h","-","5","6","1","4">>
S_BA2847 == <<"B","A","-","2","8","4","7">>
S_AF1923 == <<"A","F","-","1","9","2","3">>
S_UX1023 == <<"U","X","-","1","0","2","3">>
S_DL0001 == <<"D","L","-","0","0","0","1">>
S_space == <<" ">>
S_0900 == <<"0","9",":","0","0"," ","A","M">>
S_0200 == <<"0","2",":","0","0"," ","P","M">>
S_0800 == <<"0","8",":","0","0"," ","P","M">>
S_420 == <<"$","4","2","0">>
S_300 == <<"$","3","0","0">>
S_600 == <<"$","6","0","0">>
S_EUR0300 == <<"E","U","R"," ","0",",","3","0","0">>
S_NA == <<"N","/","A">>
S_Tomorrow == <<"T","o","m","o","r","r","o","w">>
S_next_Monday == <<"n","e","x","t"," ","M","o","n","d","a","y">>
S_TOMORROW == <<"T","O","M","O","R","R","O","W">>
S_today_or_tomorrow == <<"t","o","d","a","y"," ","o","r"," ","t","o","m","o","r","r","o","w">>
S_TODAY == <<"T","O","D","A","Y">>

-----------------------------------------------------------------------------
(* Mock tools (data layer) *)

\* _search_flight_inventory: the deterministic mock data, whatever the
\* arguments; the value of the returned dict at its one key, "flights"
_search_flight_inventory(origin, destination, date_str) ==
  << Offer(S_BA2847, S_BritishAirways, S_0900, S_420),
     Offer(S_AF1923, S_AirFrance, S_0200, S_300),
     Offer(S_LH5614, S_Lufthansa, S_0800, S_600) >>

\* _commit_reservation: the mock always confirms and echoes its arguments (the
\* random PNR only reaches the generated prose): <<status, flight_id, passenger>>
_commit_reservation(flight_id, passenger_name) ==
  <<"CONFIRMED", flight_id, passenger_name>>

-----------------------------------------------------------------------------
(* Outcomes of a call, the call log, the fixed replies *)

Return(v) == <<"return", v>>
Raise(e)  == <<"raise", e>>
Raised(outcome)   == outcome[1] = "raise"
Returned(outcome) == outcome[2]

\* one entry of the call log
Call(fn, args, result) == <<fn, args, result>>
Fn(c)     == c[1]
Args(c)   == c[2]
Result(c) == c[3]

\* line 213
GeneralReply ==
  "I am a Travel Agent system. I can help you search for and book flights. How may I assist?"
\* line 254
ClarifyReply ==
  "I could not identify the flight you wish to book. Please specify the airline name or flight ID from the search results."
\* res.text.strip() of the generation service
GeneratedReply == "<generated prose>"

-----------------------------------------------------------------------------
(* The payload of the interpretation step: a JSON object with these keys,  *)
(* each of them present or not                                             *)

Absent == PyVal("absent", <<>>)

Payload(intent, origin, destination, date_reference, booking_target, passenger) ==
  <<intent, origin, destination, date_reference, booking_target, passenger>>

slot(key) == CASE key = "intent"         -> 1
               [] key = "origin"         -> 2
               [] key = "destination"    -> 3
               [] key = "date_reference" -> 4
               [] key = "booking_target" -> 5
               [] key = "passenger"      -> 6

\* dict.get(key, default)
dict_get(d, key, default) == IF d[slot(key)] = Absent THEN default ELSE d[slot(key)]

-----------------------------------------------------------------------------
(* Interpretation step *)

\* response.text is a sequence of tokens <<tok, doc>>: a code fence with or
\* without the json tag, prose, or the text of one JSON document doc
FenceJson == <<"fence_json", PyNone>>
Fence     == <<"fence", PyNone>>
Prose     == <<"prose", PyNone>>
Json(doc) == <<"json", doc>>
Tok(t) == t[1]
Doc(t) == t[2]

\* what model.generate_content does: it raises, or it answers with a text
NluRaises     == <<"raise", <<>>>>
NluText(toks) == <<"text", toks>>
Answered(response) == response[1] = "text"
Text(response)     == response[2]

NotFence(t) == Tok(t) # "fence_json" /\ Tok(t) # "fence"
\* line 161: .replace(fence + "json", "").replace(fence, "").strip()
clean_text(text) == SelectSeq(text, NotFence)

\* json.loads: the text must be exactly one JSON document
json_loads(cleaned_text) ==
  IF Len(cleaned_text) = 1 /\ Tok(cleaned_text[1]) = "json"
  THEN Return(Doc(cleaned_text[1]))
  ELSE Raise("JSONDecodeError")

\* TravelAgentSystem._extract_parameters: whatever json.loads returned, or
\* the fallback payload of the except branch
_extract_parameters(response) ==
  LET fallback == PyDict(Payload(PyStr(S_GENERAL), Absent, Absent, Absent, Absent, Absent))
  IN  IF ~Answered(response) THEN fallback
      ELSE LET parsed == json_loads(clean_text(Text(response)))
           IN  IF Raised(parsed) THEN fallback ELSE Returned(parsed)

-----------------------------------------------------------------------------
(* Date resolution *)

Date(y, m, d) == <<y, m, d>>
Year(date)  == date[1]
Month(date) == date[2]
Day(date)   == date[3]

IsLeap(y) == (y % 4 = 0 /\ y % 100 # 0) \/ y % 400 = 0
DaysInMonth(y, m) == IF m = 2 THEN (IF IsLeap(y) THEN 29 ELSE 28)
                     ELSE IF m = 4 \/ m = 6 \/ m = 9 \/ m = 11 THEN 30 ELSE 31

\* date + datetime.timedelta(days=1)
add_one_day(date) ==
  IF Day(date) < DaysInMonth(Year(date), Month(date))
  THEN Date(Year(date), Month(date), Day(date) + 1)
  ELSE IF Month(date) < 12 THEN Date(Year(date), Month(date) + 1, 1)
       ELSE Date(Year(date) + 1, 1, 1)

Digit(n) == <<"0", "1", "2", "3", "4", "5", "6", "7", "8", "9">>[(n % 10) + 1]
\* date.strftime("%Y-%m-%d")
strftime(date) ==
  << Digit(Year(date) \div 1000), Digit(Year(date) \div 100),
     Digit(Year(date) \div 10), Digit(Year(date)), "-",
     Digit(Month(date) \div 10), Digit(Month(date)), "-",
     Digit(Day(date) \div 10), Digit(Day(date)) >>

\* the date resolver testing for "today" before "tomorrow"
_resolve_date_today_first(today, date_ref) ==
  IF ~Truthy(date_ref) THEN Return(strftime(today))
  ELSE IF ~IsStr(date_ref) THEN Raise("AttributeError")
  ELSE LET ref == lower(Val(date_ref))
           target_date == IF contains(ref, S_today) THEN today
                          ELSE IF contains(ref, S_tomorrow) THEN add_one_day(today)
                          ELSE today
       IN  Return(strftime(target_date))

\* TravelAgentSystem._resolve_date, with datetime.date.today() = today
_resolve_date(today, date_ref) ==
  IF ~Truthy(date_ref) THEN Return(strftime(today))
  ELSE IF ~IsStr(date_ref) THEN Raise("AttributeError")   \* no .lower()
  ELSE LET ref == lower(Val(date_ref))
           target_date == IF contains(ref, S_tomorrow) THEN add_one_day(today)
                          ELSE IF contains(ref, S_today) THEN today
                          ELSE today
       IN  Return(strftime(target_date))

-----------------------------------------------------------------------------
(* Generation step *)

\* TravelAgentSystem._generate_response: the prose, or the failure of the service
_generate_response(gen_ok) ==
  IF gen_ok THEN Return(GeneratedReply) ELSE Raise("GenerationError")

-----------------------------------------------------------------------------
(* Orchestrator *)

\* what one operation did: the cache it leaves, the calls it made, what it
\* returned or raised, and the arguments of update_cache if it called it
Outcome(cache, made, result, updated) == <<cache, made, result, updated>>
CacheOf(t)   == t[1]
CallsOf(t)   == t[2]
ReplyOf(t)   == t[3]
UpdatedOf(t) == t[4]

\* the arguments of one update_cache call
Update(raw_flights, origin, dest) == <<raw_flights, origin, dest>>

\* a search flow that stores the result set only once the summary is generated
_handle_search_generate_first(cache, data, today, gen_ok) ==
  LET origin      == dict_get(data, "origin", PyStr(S_Unknown))
      dest        == dict_get(data, "destination", PyStr(S_Unknown))
      date_ref    == dict_get(data, "date_reference", PyNone)
      travel_date == _resolve_date(today, date_ref)
  IN  IF Raised(travel_date) THEN Outcome(cache, <<>>, travel_date, <<>>)
      ELSE LET flights == _search_flight_inventory(origin, dest, Returned(travel_date))
               said    == _generate_response(gen_ok)
           IN  IF Raised(said)
               THEN Outcome(cache,
                            << Call("_search_flight_inventory",
                                    <<origin, dest, Returned(travel_date)>>, flights),
                               Call("_generate_response", <<>>, said) >>,
                            said, <<>>)
               ELSE Outcome(update_cache(cache, flights, origin, dest),
                            << Call("_search_flight_inventory",
                                    <<origin, dest, Returned(travel_date)>>, flights),
                               Call("update_cache", <<flights, origin, dest>>, PyNone),
                               Call("_generate_response", <<>>, said) >>,
                            said,
                            <<Update(flights, origin, dest)>>)

\* a search flow that answers with the capability statement when the
\* generation service fails
_handle_search_fallback(cache, data, today, gen_ok) ==
  LET origin      == dict_get(data, "origin", PyStr(S_Unknown))
      dest        == dict_get(data, "destination", PyStr(S_Unknown))
      date_ref    == dict_get(data, "date_reference", PyNone)
      travel_date == _resolve_date(today, date_ref)
  IN  IF Raised(travel_date) THEN Outcome(cache, <<>>, travel_date, <<>>)
      ELSE LET flights == _search_flight_inventory(origin, dest, Returned(travel_date))
               said    == _generate_response(gen_ok)
           IN  Outcome(update_cache(cache, flights, origin, dest),
                       << Call("_search_flight_inventory",
                               <<origin, dest, Returned(travel_date)>>, flights),
                          Call("update_cache", <<flights, origin, dest>>, PyNone),
                          Call("_generate_response", <<>>, said) >>,
                       IF Raised(said) THEN Return(GeneralReply) ELSE said,
                       <<Update(flights, origin, dest)>>)

\* TravelAgentSystem._handle_search
_handle_search(cache, data, today, gen_ok) ==
  LET origin      == dict_get(data, "origin", PyStr(S_Unknown))
      dest        == dict_get(data, "destination", PyStr(S_Unknown))
      date_ref    == dict_get(data, "date_reference", PyNone)
      travel_date == _resolve_date(today, date_ref)
  IN  IF Raised(travel_date) THEN Outcome(cache, <<>>, travel_date, <<>>)
      ELSE LET flights == _search_flight_inventory(origin, dest, Returned(travel_date))
               said    == _generate_response(gen_ok)
           IN  Outcome(update_cache(cache, flights, origin, dest),
                       << Call("_search_flight_inventory",
                               <<origin, dest, Returned(travel_date)>>, flights),
                          Call("update_cache", <<flights, origin, dest>>, PyNone),
                          Call("_generate_response", <<>>, said) >>,
                       said,
                       <<Update(flights, origin, dest)>>)

\* the outcome of entity resolution: the record or None, and the lookups made
Resolved(flight_record, lookups) == <<flight_record, lookups>>
RecordOf(res)  == res[1]
LookupsOf(res) == res[2]

\* entity resolution that tries the identifier first and the airline name second
resolve_target_id_first(cache, target) ==
  IF contains(target, S_cheapest)
  THEN LET found == find_cheapest_flight(cache)
       IN  Resolved(found, <<Call("find_cheapest_flight", <<>>, found)>>)
  ELSE LET by_airline == find_flight_by_airline(cache, target)
           by_id      == get_flight_by_id(cache, upper(target))
       IN  IF by_id # PyNone
           THEN Resolved(by_id, <<Call("get_flight_by_id", <<upper(target)>>, by_id)>>)
           ELSE Resolved(by_airline,
                         << Call("get_flight_by_id", <<upper(target)>>, by_id),
                            Call("find_flight_by_airline", <<target>>, by_airline) >>)

\* lines 239-251: entity resolution of the lower-cased target against the cache
resolve_target(cache, target) ==
  IF contains(target, S_cheapest)
  THEN LET found == find_cheapest_flight(cache)
       IN  Resolved(found, <<Call("find_cheapest_flight", <<>>, found)>>)
  ELSE LET by_airline == find_flight_by_airline(cache, target)
           by_id      == get_flight_by_id(cache, upper(target))
       IN  IF by_airline # PyNone
           THEN Resolved(by_airline,
                         <<Call("find_flight_by_airline", <<target>>, by_airline)>>)
           ELSE Resolved(by_id,
                         << Call("find_flight_by_airline", <<target>>, by_airline),
                            Call("get_flight_by_id", <<upper(target)>>, by_id) >>)

\* a booking flow that words the failed resolution through the generation service
clarification_generated(cache, lookups) ==
  Outcome(cache,
          lookups \o <<Call("_generate_response", <<>>, Return(GeneratedReply))>>,
          Return(GeneratedReply), <<>>)

\* lines 253-254: no record resolved
clarification(cache, lookups) ==
  Outcome(cache, lookups, Return(ClarifyReply), <<>>)

\* a booking flow that forgets the search results once a flight is booked
commit_and_clear(cache, lookups, flight_record, passenger, gen_ok) ==
  LET booking_result == _commit_reservation(FlightId(flight_record), passenger)
      said           == _generate_response(gen_ok)
  IN  Outcome(<<>>,
              lookups \o << Call("_commit_reservation",
                                 <<FlightId(flight_record), passenger>>, booking_result),
                            Call("_generate_response", <<>>, said) >>,
              said, <<>>)

\* lines 256-268: the booking tool call, then the confirmation message
commit_and_confirm(cache, lookups, flight_record, passenger, gen_ok) ==
  LET booking_result == _commit_reservation(FlightId(flight_record), passenger)
      said           == _generate_response(gen_ok)
  IN  Outcome(cache,
              lookups \o << Call("_commit_reservation",
                                 <<FlightId(flight_record), passenger>>, booking_result),
                            Call("_generate_response", <<>>, said) >>,
              said, <<>>)

\* TravelAgentSystem._handle_booking
_handle_booking(cache, data, gen_ok) ==
  LET booking_target == dict_get(data, "booking_target", PyStr(<<>>))
      passenger      == dict_get(data, "passenger", PyStr(S_Guest))
  IN  IF ~IsStr(booking_target)
      THEN Outcome(cache, <<>>, Raise("AttributeError"), <<>>)   \* no .lower()
      ELSE LET resolved == resolve_target(cache, lower(Val(booking_target)))
           IN  IF RecordOf(resolved) = PyNone
               THEN clarification(cache, LookupsOf(resolved))
               ELSE commit_and_confirm(cache, LookupsOf(resolved), RecordOf(resolved),
                                       passenger, gen_ok)

\* the router taking a payload without intent key for a search
handle_request_default_search(cache, response, today, gen_ok) ==
  LET nlu_data == _extract_parameters(response)
  IN  IF Kind(nlu_data) # "dict"
      THEN Outcome(cache, <<>>, Raise("AttributeError"), <<>>)
      ELSE LET intent == dict_get(Val(nlu_data), "intent", PyStr(S_SEARCH))
           IN  IF intent = PyStr(S_SEARCH)
               THEN _handle_search(cache, Val(nlu_data), today, gen_ok)
               ELSE IF intent = PyStr(S_BOOK)
               THEN _handle_booking(cache, Val(nlu_data), gen_ok)
               ELSE Outcome(cache, <<>>, Return(GeneralReply), <<>>)

\* TravelAgentSystem.handle_request, the interpretation service answering
\* with response
handle_request(cache, response, today, gen_ok) ==
  LET nlu_data == _extract_parameters(response)
  IN  IF Kind(nlu_data) # "dict"
      THEN Outcome(cache, <<>>, Raise("AttributeError"), <<>>)   \* no .get, line 204
      ELSE LET intent == dict_get(Val(nlu_data), "intent", PyStr(S_GENERAL))
           IN  IF intent = PyStr(S_SEARCH)
               THEN _handle_search(cache, Val(nlu_data), today, gen_ok)
               ELSE IF intent = PyStr(S_BOOK)
               THEN _handle_booking(cache, Val(nlu_data), gen_ok)
               ELSE Outcome(cache, <<>>, Return(GeneralReply), <<>>)

\* progress along the turns of the scripted session (lines 279-283), told by
\* the payloads: a search London to Paris without date reference, then a
\* booking of "Lufthansa", then a booking of "cheapest"
next_scenario_step(step, data) ==
  LET intent == dict_get(data, "intent", PyStr(S_GENERAL))
  IN  IF /\ intent = PyStr(S_SEARCH)
         /\ dict_get(data, "origin", Absent) = PyStr(S_London)
         /\ dict_get(data, "destination", Absent) = PyStr(S_Paris)
         /\ dict_get(data, "date_reference", PyNone) = PyNone
      THEN 1
      ELSE IF /\ step = 1
              /\ intent = PyStr(S_BOOK)
              /\ dict_get(data, "booking_target", Absent) = PyStr(S_Lufthansa)
      THEN 2
      ELSE IF /\ step = 2
              /\ intent = PyStr(S_BOOK)
              /\ dict_get(data, "booking_target", Absent) = PyStr(S_cheapest)
      THEN 3
      ELSE 0

-----------------------------------------------------------------------------
(* Inputs *)

\* origin and destination slots of a payload
RouteSlots == { <<PyStr(S_London), PyStr(S_Paris)>>,
                <<PyNone, PyStr(S_Paris)>>,
                <<Absent, Absent>> }
DateRefs   == { Absent, PyNone, PyStr(S_Tomorrow), PyStr(S_TODAY),
                PyStr(S_next_Monday), PyNumber }
Targets    == { Absent, PyNone, PyNumber, PyStr(S_Lufthansa), PyStr(S_cheapest),
                PyStr(S_the_CHEAPEST_one), PyStr(S_Delta), PyStr(S_air),
                PyStr(S_british_airways), PyStr(S_lh5614), PyStr(S_Lh5614),
                PyStr(S_space), PyStr(S_AirFrance) }
Passengers == { Absent, PyNone, PyStr(S_Robin) }
OtherIntents == { Absent, PyNone, PyNumber, PyStr(S_GENERAL), PyStr(S_search) }

SearchPayloads ==
  { Payload(PyStr(S_SEARCH), route[1], route[2], date_ref, Absent, Absent) :
      route \in RouteSlots, date_ref \in DateRefs }
BookPayloads ==
  { Payload(PyStr(S_BOOK), Absent, Absent, Absent, target, passenger) :
      target \in Targets, passenger \in Passengers }
OtherPayloads ==
  { Payload(intent, Absent, Absent, Absent, PyStr(S_Lufthansa), Absent) :
      intent \in OtherIntents }

\* the payload as bare JSON text, and inside a json code fence
Bare(d)   == NluText(<<Json(PyDict(d))>>)
Fenced(d) == NluText(<<FenceJson, Json(PyDict(d)), Fence>>)

SearchResponses == { Bare(d) : d \in SearchPayloads }
                     \cup { Fenced(Payload(PyStr(S_SEARCH), PyStr(S_London), PyStr(S_Paris),
                                           PyNone, PyNone, PyStr(S_Guest))) }
BookResponses   == { Bare(d) : d \in BookPayloads }
                     \cup { Fenced(Payload(PyStr(S_BOOK), PyNone, PyNone, PyNone,
                                           PyStr(S_Lufthansa), PyStr(S_Robin))) }
OtherResponses  == { Bare(d) : d \in OtherPayloads }
\* the service fails, or answers with something that is not one JSON object
MalformedResponses ==
  { NluRaises,
    NluText(<<>>),
    NluText(<<Prose>>),
    NluText(<<Prose, Json(PyDict(Payload(PyStr(S_SEARCH), Absent, Absent, Absent,
                                         Absent, Absent)))>>),
    NluText(<<Json(PyList)>>),
    NluText(<<Json(PyNone)>>),
    NluText(<<Json(PyNumber)>>),
    NluText(<<Json(PyStr(S_SEARCH))>>),
    NluText(<<FenceJson, Json(PyList), Fence>>) }

Todays == { Date(2024, 1, 10), Date(2023, 12, 31) }

\* raw offers handed to update_cache directly: two of the mock, one whose
\* price has other characters between its digits and ties with the cheaper
\* of the two, one whose price has no digit
OfferPool ==
  { Offer(S_BA2847, S_BritishAirways, S_0900, S_420),
    Offer(S_AF1923, S_AirFrance, S_0200, S_300),
    Offer(S_UX1023, S_AirEuropa, S_0900, S_EUR0300),
    Offer(S_DL0001, S_Delta, S_0200, S_NA) }

MaxOffers == 2

RECURSIVE SeqsUpTo(_, _)
\* the sequences over S of length at most n
SeqsUpTo(S, n) ==
  IF n = 0 THEN { <<>> }
  ELSE LET shorter == SeqsUpTo(S, n - 1)
       IN  shorter \cup { Append(s, x) : s \in shorter, x \in S }

RawFlightLists == SeqsUpTo(OfferPool, MaxOffers)
Routes         == { <<PyStr(S_London), PyStr(S_Paris)>>, <<PyStr(S_Paris), PyNone>> }
AirlineQueries == { S_air, S_Lufthansa, S_british_airways, S_Delta, S_space }
IdQueries      == { S_BA2847, S_lh5614, S_AF1923, S_Delta }

-----------------------------------------------------------------------------
(* The state machine *)

NoReply    == <<"none", <<>>>>
NoResponse == <<"none", <<>>>>

\* record r carries offer f and the route of update
built_from(r, f, update) ==
  /\ FlightId(r) = item(f, "flight_id")
  /\ Airline(r) = item(f, "airline")
  /\ RawPrice(r) = item(f, "price")
  /\ Departure(r) = item(f, "departure_time")
  /\ Origin(r) = update[2]
  /\ Destination(r) = update[3]

\* update replaces a cache holding a record that it does not build itself
discards(old_cache, update) ==
  \E i \in 1..Len(old_cache) :
    \A j \in 1..Len(update[1]) : ~built_from(old_cache[i], update[1][j], update)

\* the state after TravelAgentSystem.__init__ (lines 54-56, 135-137)
Init ==
  /\ flight_cache = <<>>
  /\ op = "__init__"
  /\ nlu_response = NoResponse
  /\ calls = <<>>
  /\ reply = NoReply
  /\ last_update = <<>>
  /\ superseded = FALSE
  /\ scenario_step = 0

\* one call of handle_request: the interpretation service answers with
\* response, the date is today, the generation service works or fails
Turn(response, today, gen_ok) ==
  \E t \in {handle_request(flight_cache, response, today, gen_ok)} :
    LET nlu_data == _extract_parameters(response)
    IN  /\ flight_cache' = CacheOf(t)
        /\ op' = "handle_request"
        /\ nlu_response' = response
        /\ calls' = CallsOf(t)
        /\ reply' = ReplyOf(t)
        /\ last_update' = IF UpdatedOf(t) # <<>> THEN UpdatedOf(t) ELSE last_update
        /\ superseded' = IF UpdatedOf(t) # <<>>
                         THEN discards(flight_cache, UpdatedOf(t)[1])
                         ELSE superseded
        /\ scenario_step' = IF Kind(nlu_data) = "dict"
                            THEN next_scenario_step(scenario_step, Val(nlu_data))
                            ELSE 0

Next ==
  \/ \E response \in SearchResponses, today \in Todays, gen_ok \in BOOLEAN :
       Turn(response, today, gen_ok)
  \/ \E response \in BookResponses, gen_ok \in BOOLEAN :
       Turn(response, Date(2024, 1, 10), gen_ok)
  \/ \E response \in OtherResponses \cup MalformedResponses :
       Turn(response, Date(2024, 1, 10), TRUE)

Spec == Init /\ [][Next]_vars

(* AgentMemory driven directly, with any offers *)

MemUpdate(raw_flights, origin, dest) ==
  /\ flight_cache' = update_cache(flight_cache, raw_flights, origin, dest)
  /\ op' = "update_cache"
  /\ calls' = <<Call("update_cache", <<raw_flights, origin, dest>>, PyNone)>>
  /\ last_update' = <<Update(raw_flights, origin, dest)>>
  /\ superseded' = discards(flight_cache, Update(raw_flights, origin, dest))
  /\ UNCHANGED <<nlu_response, reply, scenario_step>>

MemFindByAirline(airline_name) ==
  /\ op' = "find_flight_by_airline"
  /\ calls' = <<Call("find_flight_by_airline", <<airline_name>>,
                     find_flight_by_airline(flight_cache, airline_name))>>
  /\ UNCHANGED <<flight_cache, nlu_response, reply, last_update, superseded,
                 scenario_step>>

MemFindCheapest ==
  /\ op' = "find_cheapest_flight"
  /\ calls' = <<Call("find_cheapest_flight", <<>>, find_cheapest_flight(flight_cache))>>
  /\ UNCHANGED <<flight_cache, nlu_response, reply, last_update, superseded,
                 scenario_step>>

MemGetById(flight_id) ==
  /\ op' = "get_flight_by_id"
  /\ calls' = <<Call("get_flight_by_id", <<flight_id>>,
                     get_flight_by_id(flight_cache, flight_id))>>
  /\ UNCHANGED <<flight_cache, nlu_response, reply, last_update, superseded,
                 scenario_step>>

NextMem ==
  \/ \E raw_flights \in RawFlightLists, route \in Routes :
       MemUpdate(raw_flights, route[1], route[2])
  \/ \E airline_name \in AirlineQueries : MemFindByAirline(airline_name)
  \/ MemFindCheapest
  \/ \E flight_id \in IdQueries : MemGetById(flight_id)

SpecMem == Init /\ [][NextMem]_vars

(* The date resolver driven directly, on any day *)

\* values of datetime.date.today(): ordinary days, ends of months, of
\* February in leap and other years, of years
ResolverTodays ==
  { Date(2024, 1, 10), Date(2024, 6, 15), Date(2024, 1, 31), Date(2024, 4, 30),
    Date(2024, 2, 28), Date(2024, 2, 29), Date(2023, 2, 28), Date(2000, 2, 28),
    Date(1900, 2, 28), Date(2023, 12, 31), Date(2024, 12, 30), Date(2099, 12, 31) }
\* values of the date_ref argument
ResolverRefs ==
  { PyNone, PyStr(<<>>), PyStr(S_tomorrow), PyStr(S_Tomorrow), PyStr(S_TOMORROW),
    PyStr(S_today), PyStr(S_TODAY), PyStr(S_next_Monday),
    PyStr(S_today_or_tomorrow), PyNumber }

ResolveDate(today, date_ref) ==
  /\ op' = "_resolve_date"
  /\ calls' = <<Call("_resolve_date", <<today, date_ref>>, _resolve_date(today, date_ref))>>
  /\ UNCHANGED <<flight_cache, nlu_response, reply, last_update, superseded,
                 scenario_step>>

NextDate == \E today \in ResolverTodays, date_ref \in ResolverRefs :
              ResolveDate(today, date_ref)

SpecDate == Init /\ [][NextDate]_vars

-----------------------------------------------------------------------------
(* Vocabulary of the properties *)

IsTurn == op = "handle_request"

\* the last turn's interpretation answer is one JSON object, bare or fenced
TurnIsObject ==
  /\ Answered(nlu_response)
  /\ \E i \in 1..Len(Text(nlu_response)) :
       /\ Tok(Text(nlu_response)[i]) = "json"
       /\ Kind(Doc(Text(nlu_response)[i])) = "dict"
       /\ \A j \in 1..Len(Text(nlu_response)) :
            j # i => ~NotFence(Text(nlu_response)[j])
\* that object
TurnData ==
  Val(Doc(Text(nlu_response)[CHOOSE i \in 1..Len(Text(nlu_response)) :
                               Tok(Text(nlu_response)[i]) = "json"]))
TurnSlot(key, default) == dict_get(TurnData, key, default)

IsSearchTurn == IsTurn /\ TurnIsObject /\ TurnSlot("intent", PyNone) = PyStr(S_SEARCH)
IsBookTurn   == IsTurn /\ TurnIsObject /\ TurnSlot("intent", PyNone) = PyStr(S_BOOK)
\* a BOOK turn whose booking-target slot is a string, or missing (then "")
IsBookTurnWithTarget == IsBookTurn /\ IsStr(TurnSlot("booking_target", PyStr(<<>>)))
\* the booking-target slot lower-cased
TurnTarget == lower(Val(TurnSlot("booking_target", PyStr(<<>>))))

IsCommit(c)   == Fn(c) = "_commit_reservation"
IsGenerate(c) == Fn(c) = "_generate_response"
IsLookup(c)   == \/ Fn(c) = "find_cheapest_flight"
                 \/ Fn(c) = "find_flight_by_airline"
                 \/ Fn(c) = "get_flight_by_id"
Commits   == SelectSeq(calls, IsCommit)
Generates == SelectSeq(calls, IsGenerate)
Lookups   == SelectSeq(calls, IsLookup)

\* q occurs in s as a contiguous run of characters
OccursIn(q, s) == \E a \in 0..Len(s) : \E b \in a..Len(s) : SubSeq(s, a + 1, b) = q
\* the carrier name of r, lower-cased and without spaces, contains the query,
\* lower-cased and without spaces
CarrierMatches(r, query) ==
  OccursIn(SelectSeq(lower(query), NotSpace), SelectSeq(lower(Airline(r)), NotSpace))

Decimals == <<"0", "1", "2", "3", "4", "5", "6", "7", "8", "9">>
IsDecimal(c) == \E k \in 1..10 : Decimals[k] = c
DecimalValue(c) == (CHOOSE k \in 1..10 : Decimals[k] = c) - 1
RECURSIVE Numeral(_, _)
\* the number written by the digits of s, read from the left, after acc
Numeral(acc, s) ==
  IF s = <<>> THEN acc
  ELSE Numeral(IF IsDecimal(Head(s)) THEN 10 * acc + DecimalValue(Head(s)) ELSE acc,
               Tail(s))
HasDigit(s) == \E i \in 1..Len(s) : IsDecimal(s[i])

-----------------------------------------------------------------------------
(* C1 *)

\* r is built from an offer of the most recent update_cache call
FromLatestUpdate(r) ==
  /\ last_update # <<>>
  /\ \E j \in 1..Len(last_update[1][1]) :
       built_from(r, last_update[1][1][j], last_update[1])

\* C1: after any sequence of turns the cache holds exactly one record per
\* offer of the most recent update_cache call and nothing else, and every
\* record that find_cheapest_flight, find_flight_by_airline or
\* get_flight_by_id returned in the turn is built from that call.
C1_LookupsSeeOnlyLatestUpdate ==
  /\ Len(flight_cache) = IF last_update = <<>> THEN 0 ELSE Len(last_update[1][1])
  /\ \A i \in 1..Len(flight_cache) : FromLatestUpdate(flight_cache[i])
  /\ \A i \in 1..Len(calls) :
       (IsLookup(calls[i]) /\ Result(calls[i]) # PyNone)
         => FromLatestUpdate(Result(calls[i]))

\* a lookup returns a record after a search replaced the records of an
\* earlier search with another route
C1_Witness ==
  /\ IsTurn
  /\ superseded
  /\ \E i \in 1..Len(calls) : IsLookup(calls[i]) /\ Result(calls[i]) # PyNone

-----------------------------------------------------------------------------
(* C2 *)

\* target resolves to no cached record
Unresolvable(target) ==
  IF OccursIn(S_cheapest, target) THEN flight_cache = <<>>
  ELSE \A i \in 1..Len(flight_cache) :
         /\ ~CarrierMatches(flight_cache[i], target)
         /\ FlightId(flight_cache[i]) # upper(target)

\* C2: a BOOK turn whose target resolves to no cached record returns the
\* fixed clarification message and calls neither _commit_reservation nor
\* _generate_response.
C2_UnresolvedBookingClarifies ==
  (IsBookTurnWithTarget /\ Unresolvable(TurnTarget))
    => /\ reply = Return(ClarifyReply)
       /\ Commits = <<>>
       /\ Generates = <<>>

\* booking "Delta" after a search: no such carrier, no such identifier
C2_Witness ==
  /\ IsBookTurnWithTarget /\ Unresolvable(TurnTarget)
  /\ TurnTarget = lower(S_Delta)
  /\ flight_cache # <<>>
  /\ reply = Return(ClarifyReply)

-----------------------------------------------------------------------------
(* C3 *)

\* the interpretation service raised, or its text is not one JSON object
MalformedInterpretation == IsTurn /\ ~TurnIsObject

\* C3: whenever the interpretation service raises or answers with text that
\* is not JSON, or with JSON that is not an object, handle_request returns
\* the capability statement and raises nothing.
C3_MalformedInterpretationIsGeneral ==
  MalformedInterpretation => reply = Return(GeneralReply)

-----------------------------------------------------------------------------
(* C4 *)

\* C4: in a BOOK turn with target the lower-cased booking-target slot: a
\* target containing "cheapest" is resolved by find_cheapest_flight alone;
\* any other by find_flight_by_airline(target) first and by
\* get_flight_by_id(upper(target)) only when the airline lookup returned
\* None; and when the last lookup returned a record, _commit_reservation is
\* called exactly once, after the lookups, with that record's flight_id,
\* otherwise not at all.
C4_ResolutionOrderAndSingleCommit ==
  IsBookTurnWithTarget =>
    LET n == Len(Lookups)
    IN  /\ n >= 1
        /\ SubSeq(calls, 1, n) = Lookups
        /\ IF OccursIn(S_cheapest, TurnTarget)
           THEN n = 1 /\ Fn(Lookups[1]) = "find_cheapest_flight"
           ELSE /\ Fn(Lookups[1]) = "find_flight_by_airline"
                /\ Args(Lookups[1]) = <<TurnTarget>>
                /\ IF Result(Lookups[1]) # PyNone THEN n = 1
                   ELSE /\ n = 2
                        /\ Fn(Lookups[2]) = "get_flight_by_id"
                        /\ Args(Lookups[2]) = <<upper(TurnTarget)>>
        /\ IF Result(Lookups[n]) = PyNone THEN Commits = <<>>
           ELSE /\ Len(Commits) = 1
                /\ Args(Commits[1])[1] = FlightId(Result(Lookups[n]))

\* booking "lh-5614" after a search: no airline matches, the upper-cased
\* identifier does, and the reservation is committed for it
C4_Witness ==
  /\ IsBookTurnWithTarget
  /\ TurnTarget = S_lh5614
  /\ Len(Lookups) = 2
  /\ Len(Commits) = 1
  /\ Args(Commits[1])[1] = S_LH5614

-----------------------------------------------------------------------------
(* C5 *)

\* the cache a search from London to Paris leaves
ScenarioCache ==
  << FlightRecord(S_BA2847, S_BritishAirways, 420, S_420, S_0900,
                  PyStr(S_London), PyStr(S_Paris)),
     FlightRecord(S_AF1923, S_AirFrance, 300, S_300, S_0200,
                  PyStr(S_London), PyStr(S_Paris)),
     FlightRecord(S_LH5614, S_Lufthansa, 600, S_600, S_0800,
                  PyStr(S_London), PyStr(S_Paris)) >>

\* C5: a SEARCH turn from London to Paris without date reference leaves the
\* 3-record cache; a BOOK turn for "Lufthansa" right after it commits the
\* reservation once, for LH-5614; a BOOK turn for "cheapest" right after that
\* commits once, for AF-1923, the lowest-priced record of the same cache.
C5_ScenarioBooksLufthansaThenCheapest ==
  /\ scenario_step \in 1..3 => flight_cache = ScenarioCache
  /\ scenario_step = 2 =>
       /\ Len(Commits) = 1
       /\ Args(Commits[1])[1] = S_LH5614
       /\ \E i \in 1..3 : /\ Airline(flight_cache[i]) = S_Lufthansa
                          /\ FlightId(flight_cache[i]) = S_LH5614
  /\ scenario_step = 3 =>
       /\ Len(Commits) = 1
       /\ Args(Commits[1])[1] = S_AF1923
       /\ \E i \in 1..3 :
            /\ FlightId(flight_cache[i]) = S_AF1923
            /\ \A j \in 1..3 : j # i => Price(flight_cache[j]) > Price(flight_cache[i])

\* the third turn of the sequence has been taken
C5_Witness ==
  /\ scenario_step = 3
  /\ IsBookTurn
  /\ Len(Commits) = 1

-----------------------------------------------------------------------------
(* C6 *)

\* C6: find_cheapest_flight returns None on an empty cache, and otherwise
\* the record at the first position whose price is the minimum of the cache.
C6_CheapestIsFirstMinimum ==
  op = "find_cheapest_flight" =>
    IF flight_cache = <<>> THEN Result(calls[1]) = PyNone
    ELSE \E i \in 1..Len(flight_cache) :
           /\ Result(calls[1]) = flight_cache[i]
           /\ \A j \in 1..Len(flight_cache) :
                /\ Price(flight_cache[j]) >= Price(flight_cache[i])
                /\ j < i => Price(flight_cache[j]) > Price(flight_cache[i])

\* two different records tie for the minimum and the earlier one is returned
C6_Witness ==
  /\ op = "find_cheapest_flight"
  /\ \E i, j \in 1..Len(flight_cache) :
       /\ i < j
       /\ flight_cache[i] # flight_cache[j]
       /\ Price(flight_cache[i]) = Price(flight_cache[j])
       /\ \A k \in 1..Len(flight_cache) : Price(flight_cache[k]) >= Price(flight_cache[i])
       /\ Result(calls[1]) = flight_cache[i]

-----------------------------------------------------------------------------
(* C7 *)

\* C7: find_flight_by_airline(query) returns the first record in cache order
\* whose carrier name, lower-cased and without spaces, contains the query,
\* lower-cased and without spaces; None when there is no such record.  With
\* British Airways cached first and Air France after it, "air" returns the
\* British Airways record.
C7_FirstCarrierSubstringMatch ==
  op = "find_flight_by_airline" =>
    LET query  == Args(calls[1])[1]
        result == Result(calls[1])
    IN  /\ IF \E i \in 1..Len(flight_cache) : CarrierMatches(flight_cache[i], query)
           THEN \E i \in 1..Len(flight_cache) :
                  /\ result = flight_cache[i]
                  /\ CarrierMatches(flight_cache[i], query)
                  /\ \A j \in 1..(i - 1) : ~CarrierMatches(flight_cache[j], query)
           ELSE result = PyNone
        /\ ( /\ query = S_air
             /\ flight_cache # <<>>
             /\ Airline(flight_cache[1]) = S_BritishAirways
             /\ \E j \in 2..Len(flight_cache) : Airline(flight_cache[j]) = S_AirFrance )
           => result = flight_cache[1]

\* "air" is looked up with British Airways cached before Air France
C7_Witness ==
  /\ op = "find_flight_by_airline"
  /\ Args(calls[1])[1] = S_air
  /\ Len(flight_cache) >= 2
  /\ Airline(flight_cache[1]) = S_BritishAirways
  /\ Airline(flight_cache[2]) = S_AirFrance
  /\ Result(calls[1]) = flight_cache[1]

-----------------------------------------------------------------------------
(* C8 *)

\* C8: every cached record's price is the number written by the digits of
\* its display price, in their order, when the display price has a digit,
\* and 999999 when it has none; it is never negative.
C8_PriceIsDigitsOrSentinel ==
  \A i \in 1..Len(flight_cache) :
    /\ HasDigit(RawPrice(flight_cache[i]))
         => Price(flight_cache[i]) = Numeral(0, RawPrice(flight_cache[i]))
    /\ ~HasDigit(RawPrice(flight_cache[i])) => Price(flight_cache[i]) = 999999
    /\ Price(flight_cache[i]) >= 0

\* the cache holds a price with other characters between its digits, parsed
\* to 300, and a price without digits
C8_Witness ==
  /\ op = "update_cache"
  /\ \E i \in 1..Len(flight_cache) :
       RawPrice(flight_cache[i]) = S_EUR0300 /\ Price(flight_cache[i]) = 300
  /\ \E i \in 1..Len(flight_cache) :
       RawPrice(flight_cache[i]) = S_NA /\ Price(flight_cache[i]) = 999999

-----------------------------------------------------------------------------
(* C9 *)

\* C9: update_cache(raw_flights, origin, dest) leaves as many records as
\* there are offers, the i-th record carrying the i-th offer's identifier,
\* carrier, departure and display price and the call's origin and
\* destination; an offer without digits in its price is stored too, with
\* price 999999.
C9_UpdateKeepsEveryOfferInOrder ==
  op = "update_cache" =>
    LET raw_flights == Args(calls[1])[1]
    IN  /\ Len(flight_cache) = Len(raw_flights)
        /\ \A i \in 1..Len(raw_flights) :
             /\ i <= Len(flight_cache)
             /\ FlightId(flight_cache[i]) = raw_flights[i][1]
             /\ Airline(flight_cache[i]) = raw_flights[i][2]
             /\ Departure(flight_cache[i]) = raw_flights[i][3]
             /\ RawPrice(flight_cache[i]) = raw_flights[i][4]
             /\ Origin(flight_cache[i]) = Args(calls[1])[2]
             /\ Destination(flight_cache[i]) = Args(calls[1])[3]
             /\ ~HasDigit(raw_flights[i][4]) => Price(flight_cache[i]) = 999999

\* an offer without digits in its price comes first and another offer follows
C9_Witness ==
  /\ op = "update_cache"
  /\ Len(Args(calls[1])[1]) = 2
  /\ ~HasDigit(Args(calls[1])[1][1][4])
  /\ HasDigit(Args(calls[1])[1][2][4])
  /\ Len(flight_cache) = 2

-----------------------------------------------------------------------------
(* C10 *)

\* C10: every turn other than a SEARCH turn (a BOOK turn that resolves a
\* record, fails to resolve one or fails in the generation step, a turn of
\* any other intent, a turn whose interpretation failed) leaves the flight
\* cache as it was before the turn.
C10_OnlySearchTurnsChangeTheCache ==
  [][(IsTurn' /\ ~IsSearchTurn') => flight_cache' = flight_cache]_vars

\* a BOOK turn on a non-empty cache commits a reservation and then fails in
\* the generation step
C10_Witness ==
  /\ IsBookTurn
  /\ flight_cache # <<>>
  /\ Len(Commits) = 1
  /\ reply = Raise("GenerationError")

-----------------------------------------------------------------------------
(* C11 *)

IsInventory(c) == Fn(c) = "_search_flight_inventory"
\* the last turn's payload is an object whose intent is neither SEARCH nor
\* BOOK, or that has no intent key
IsOtherIntentTurn ==
  /\ IsTurn /\ TurnIsObject
  /\ TurnSlot("intent", Absent) # PyStr(S_SEARCH)
  /\ TurnSlot("intent", Absent) # PyStr(S_BOOK)

\* C11: a turn whose intent is GENERAL, any other value than SEARCH and
\* BOOK, or missing, returns the capability statement and calls none of
\* _search_flight_inventory, _commit_reservation and _generate_response.
C11_OtherIntentsGetCannedReply ==
  IsOtherIntentTurn =>
    /\ reply = Return(GeneralReply)
    /\ \A i \in 1..Len(calls) :
         ~IsInventory(calls[i]) /\ ~IsCommit(calls[i]) /\ ~IsGenerate(calls[i])

\* a payload without intent key, naming a cached carrier, after a search
C11_Witness ==
  /\ IsOtherIntentTurn
  /\ TurnSlot("intent", Absent) = Absent
  /\ flight_cache # <<>>
  /\ reply = Return(GeneralReply)

-----------------------------------------------------------------------------
(* C12 *)

\* v is a string, null, or not there
IsStrNullOrAbsent(v) == IsStr(v) \/ v = PyNone \/ v = Absent

\* the last turn's payload is an object whose six slots are each a string,
\* null or missing, and every call of the generation service returned
WellFormedTurnWithGeneration ==
  /\ IsTurn /\ TurnIsObject
  /\ \A k \in 1..6 : IsStrNullOrAbsent(TurnData[k])
  /\ \A i \in 1..Len(calls) : IsGenerate(calls[i]) => ~Raised(Result(calls[i]))

\* C12: for every payload that is a JSON object whose slots are present,
\* absent or null, with the generation service working, handle_request
\* returns a reply and raises nothing.
C12_ObjectPayloadNeverRaises ==
  WellFormedTurnWithGeneration => ~Raised(reply)

-----------------------------------------------------------------------------
(* C13 *)

LeapYear(y) == y % 4 = 0 /\ (y % 100 # 0 \/ y % 400 = 0)
MonthLength(y, m) ==
  <<31, IF LeapYear(y) THEN 29 ELSE 28, 31, 30, 31, 30, 31, 31, 30, 31, 30, 31>>[m]
\* the number of the day y-m-d, counting from 0001-01-01 as day 1
Ordinal(y, m, d) ==
  365 * (y - 1) + ((y - 1) \div 4) - ((y - 1) \div 100) + ((y - 1) \div 400)
    + <<0, 31, 59, 90, 120, 151, 181, 212, 243, 273, 304, 334>>[m]
    + (IF m > 2 /\ LeapYear(y) THEN 1 ELSE 0) + d
\* s reads YYYY-MM-DD
IsIsoDate(s) ==
  /\ Len(s) = 10
  /\ s[5] = "-" /\ s[8] = "-"
  /\ \A i \in 1..10 : (i # 5 /\ i # 8) => IsDecimal(s[i])
  /\ Numeral(0, SubSeq(s, 6, 7)) \in 1..12
  /\ Numeral(0, SubSeq(s, 9, 10)) \in
       1..MonthLength(Numeral(0, SubSeq(s, 1, 4)), Numeral(0, SubSeq(s, 6, 7)))
IsoOrdinal(s) ==
  Ordinal(Numeral(0, SubSeq(s, 1, 4)), Numeral(0, SubSeq(s, 6, 7)),
          Numeral(0, SubSeq(s, 9, 10)))

\* C13: for a reference that is null or a string, _resolve_date raises
\* nothing and returns a date in the form YYYY-MM-DD: the day after the
\* current date when the reference contains "tomorrow" in any letter case
\* (also when it contains "today"), and the current date otherwise (null,
\* empty, "today", "next Monday").  On 2024-01-10, "tomorrow" gives
\* 2024-01-11.
C13_TomorrowIsNextDayElseToday ==
  (op = "_resolve_date" /\ (IsStr(Args(calls[1])[2]) \/ Args(calls[1])[2] = PyNone)) =>
    LET today    == Args(calls[1])[1]
        date_ref == Args(calls[1])[2]
        result   == Result(calls[1])
        shift    == IF IsStr(date_ref) /\ OccursIn(S_tomorrow, lower(Val(date_ref)))
                    THEN 1 ELSE 0
    IN  /\ ~Raised(result)
        /\ IsIsoDate(Returned(result))
        /\ IsoOrdinal(Returned(result)) = Ordinal(today[1], today[2], today[3]) + shift
        /\ (today = <<2024, 1, 10>> /\ date_ref = PyStr(S_tomorrow))
             => Returned(result) = <<"2","0","2","4","-","0","1","-","1","1">>

\* a reference naming both today and tomorrow, on the last day of a year
C13_Witness ==
  /\ op = "_resolve_date"
  /\ Args(calls[1])[1] = <<2023, 12, 31>>
  /\ Args(calls[1])[2] = PyStr(S_today_or_tomorrow)
  /\ Result(calls[1]) = Return(<<"2","0","2","4","-","0","1","-","0","1">>)

-----------------------------------------------------------------------------
(* C14 *)

\* the generation service was called in the last turn and failed
GenerationFailed ==
  IsTurn /\ \E i \in 1..Len(calls) : IsGenerate(calls[i]) /\ Raised(Result(calls[i]))

\* C14: when the generation service fails in a SEARCH turn or in a BOOK turn
\* that resolved a record, handle_request raises that failure to its caller
\* and returns nothing, neither the capability statement nor the
\* clarification message.
C14_GenerationFailurePropagates ==
  GenerationFailed =>
    /\ IsSearchTurn \/ (IsBookTurn /\ Commits # <<>>)
    /\ Raised(reply)
    /\ \E i \in 1..Len(calls) : IsGenerate(calls[i]) /\ reply = Result(calls[i])
    /\ reply # Return(GeneralReply)
    /\ reply # Return(ClarifyReply)

\* the generation service fails in a SEARCH turn
C14_Witness ==
  /\ GenerationFailed
  /\ IsSearchTurn
  /\ reply = Raise("GenerationError")

-----------------------------------------------------------------------------
(* C15 *)

\* C15: in every reachable state the flight_id values of the cached records
\* are pairwise distinct, whatever offers update_cache was given.
C15_CachedIdentifiersDistinct ==
  \A i, j \in 1..Len(flight_cache) :
    i # j => FlightId(flight_cache[i]) # FlightId(flight_cache[j])

-----------------------------------------------------------------------------
(* C16 *)

\* the lower-cased target of the last BOOK turn is the identifier of the
\* i-th cached record in some letter case
TargetIsIdentifierOf(i) ==
  /\ IsBookTurnWithTarget
  /\ i \in 1..Len(flight_cache)
  /\ lower(FlightId(flight_cache[i])) = TurnTarget

\* C16: a BOOK turn whose target is the identifier of a cached record in any
\* letter case tries the airline lookup with the lower-cased target first,
\* then looks the upper-cased target up as an identifier, which is exactly
\* the cached identifier, resolves to that record and commits the
\* reservation once, for its identifier.
C16_IdentifierTargetResolvesToItsRecord ==
  \A i \in 1..Len(flight_cache) :
    TargetIsIdentifierOf(i) =>
      /\ Len(Lookups) = 2
      /\ Fn(Lookups[1]) = "find_flight_by_airline"
      /\ Args(Lookups[1]) = <<TurnTarget>>
      /\ Fn(Lookups[2]) = "get_flight_by_id"
      /\ Args(Lookups[2]) = <<FlightId(flight_cache[i])>>
      /\ Result(Lookups[2]) = flight_cache[i]
      /\ Len(Commits) = 1
      /\ Args(Commits[1])[1] = FlightId(flight_cache[i])

\* the payload names Lh-5614, the cache holds LH-5614
C16_Witness ==
  /\ TargetIsIdentifierOf(3)
  /\ TurnSlot("booking_target", Absent) = PyStr(S_Lh5614)
  /\ Len(Commits) = 1
  /\ Args(Commits[1])[1] = S_LH5614

-----------------------------------------------------------------------------
(* C17 *)

\* C17: in a BOOK turn that resolves a record, _commit_reservation receives
\* the passenger slot of the payload as passenger name, and "Guest" when
\* that slot is absent or null.
C17_PassengerOrGuest ==
  (IsBookTurn /\ Commits # <<>>) =>
    Args(Commits[1])[2] =
      IF TurnSlot("passenger", Absent) = Absent \/ TurnSlot("passenger", Absent) = PyNone
      THEN PyStr(S_Guest)
      ELSE TurnSlot("passenger", Absent)

-----------------------------------------------------------------------------
(* C18 *)

\* C18: every call of _commit_reservation carries the flight_id of a record
\* that is in the flight cache; none is made while no search has filled the
\* cache, and every BOOK turn on an empty cache, also one for "cheapest",
\* ends in the clarification reply.
C18_CommitOnlyCachedAndClarifyOnEmpty ==
  /\ \A i \in 1..Len(Commits) :
       \E j \in 1..Len(flight_cache) : FlightId(flight_cache[j]) = Args(Commits[i])[1]
  /\ last_update = <<>> => Commits = <<>>
  /\ (IsBookTurn /\ flight_cache = <<>>) => reply = Return(ClarifyReply)

-----------------------------------------------------------------------------
(* C19 *)

GenerationRaised == reply = Raise("GenerationError")

\* the cache holds, in order, one record for each offer that the inventory
\* call of the last turn returned, with the route of that call
CacheHoldsResultOfThisTurn ==
  \E k \in 1..Len(calls) :
    /\ IsInventory(calls[k])
    /\ Len(flight_cache) = Len(Result(calls[k]))
    /\ \A i \in 1..Len(flight_cache) :
         built_from(flight_cache[i], Result(calls[k])[i],
                    <<Result(calls[k]), Args(calls[k])[1], Args(calls[k])[2]>>)

\* the one commit of the last turn was made before the generation call, for
\* the record the last lookup returned
CommittedBeforeGeneration ==
  /\ Len(Commits) = 1
  /\ Result(Lookups[Len(Lookups)]) # PyNone
  /\ Args(Commits[1])[1] = FlightId(Result(Lookups[Len(Lookups)]))
  /\ \E i, j \in 1..Len(calls) : i < j /\ IsCommit(calls[i]) /\ IsGenerate(calls[j])

\* what holds after a turn whose generation call failed
EffectsKeptOnGenerationFailure ==
  /\ (IsSearchTurn /\ GenerationRaised) => CacheHoldsResultOfThisTurn
  /\ (IsBookTurn /\ GenerationRaised) => CommittedBeforeGeneration

\* C19: the effects of a turn precede the generation call and stay when it
\* fails: after a SEARCH turn whose generation call failed the cache holds
\* the new result set, and a BOOK turn for "Lufthansa" right after it
\* resolves to a record of that cache and commits LH-5614; after a BOOK turn
\* whose generation call failed, _commit_reservation has been called once,
\* for the resolved record.
C19_EffectsPrecedeGenerationAndStay ==
  [][ /\ EffectsKeptOnGenerationFailure'
      /\ ( /\ IsSearchTurn /\ GenerationRaised
           /\ IsBookTurnWithTarget' /\ TurnTarget' = lower(S_Lufthansa) )
         => /\ (\E i \in 1..Len(flight_cache) : flight_cache[i] = Result(Lookups[1])')
            /\ Len(Commits') = 1
            /\ (Args(Commits[1])[1])' = S_LH5614 ]_vars

\* a SEARCH turn replaced the records of an earlier search and then failed
\* in the generation call
C19_Witness ==
  /\ IsSearchTurn
  /\ GenerationRaised
  /\ superseded
  /\ Len(flight_cache) = 3

-----------------------------------------------------------------------------
(* C20 *)

\* the last turn is a BOOK turn whose booking-target key is missing or
\* whose target has no character other than spaces
IsBookTurnWithBlankTarget ==
  /\ IsBookTurn
  /\ \/ TurnSlot("booking_target", Absent) = Absent
     \/ /\ IsStr(TurnSlot("booking_target", Absent))
        /\ \A i \in 1..Len(Val(TurnSlot("booking_target", Absent))) :
             Val(TurnSlot("booking_target", Absent))[i] = " "

\* C20: on a non-empty cache, a BOOK turn whose booking target is missing
\* or consists of spaces only does not end in the clarification reply: the
\* airline lookup returns the first cached record and the reservation is
\* committed once, for that record.
C20_BlankTargetBooksFirstRecord ==
  (IsBookTurnWithBlankTarget /\ flight_cache # <<>>) =>
    /\ reply # Return(ClarifyReply)
    /\ Len(Lookups) = 1
    /\ Fn(Lookups[1]) = "find_flight_by_airline"
    /\ Result(Lookups[1]) = flight_cache[1]
    /\ Len(Commits) = 1
    /\ Args(Commits[1])[1] = FlightId(flight_cache[1])

\* the payload has no booking_target key and BA-2847, cached first, is booked
C20_Witness ==
  /\ IsBookTurnWithBlankTarget
  /\ TurnSlot("booking_target", Absent) = Absent
  /\ flight_cache # <<>>
  /\ Len(Commits) = 1
  /\ Args(Commits[1])[1] = S_BA2847

====
